---- MODULE Spec2Model ----
(***************************************************************************)
(* Model of src/channel-display-gst.c: the GStreamer video decoder of a    *)
(* display stream.  One caller thread runs stream_gst_init,                *)
(* stream_gst_data and stream_gst_cleanup one at a time; the pipeline's    *)
(* streaming threads run appsrc_need_data_cb and appsink_new_sample_cb,    *)
(* which meet the caller in signal_pipeline under pipeline_mutex.          *)
(***************************************************************************)
EXTENDS Integers, Sequences, FiniteSets, TLC

\* Non-empty compressed frames pushed during one pipeline lifetime.
MaxFrames == 2

NULL == 0
\* A non-null pointer to a live object (decoder, pipeline, endpoint).
PTR == 1

\* Sizes stream_get_current_frame can report: an empty frame, a 10-byte one.
FrameSizes == {0, 10}

Kinds == {"need_data", "new_sample"}

\* What the pipeline does with one accepted buffer: which callbacks it calls.
Reactions == SUBSET Kinds

VARIABLES
    pc,          \* position of the caller thread
    op,          \* the API function the caller runs or ran last
    life,        \* lifecycle of the stream's decoder handle
    st,          \* display_stream: gst_dec, out_frame
    dec,         \* struct GStreamerDecoder (all zero when there is none)
    frameSize,   \* size of the stream's current compressed frame
    live,        \* resources created and not yet released
    callbacks,   \* callbacks registered on the pipeline's endpoints
    heldSamples, \* GstSample references held by the decoder
    heldMaps,    \* memory mappings held by the decoder
    inflight,    \* frames whose message is referenced on behalf of a buffer
    mutex,       \* owner of pipeline_mutex
    woken,       \* pipeline_cond was signalled for the waiting caller
    cb,          \* the streaming thread running a callback
    pending,     \* notifications the pipeline has yet to deliver
    sinkq,       \* decoded samples queued in the appsink
    nextFrame,   \* number of the next compressed frame pushed
    call,        \* what the current API call has seen and done
    nullDeref    \* the running or last API call dereferenced a NULL decoder

vars == <<pc, op, life, st, dec, frameSize, live, callbacks, heldSamples,
          heldMaps, inflight, mutex, woken, cb, pending, sinkq, nextFrame,
          call, nullDeref>>

\* g_malloc0(sizeof(*decoder))
ZeroDec == [pipeline |-> NULL, appsrc |-> NULL, appsink |-> NULL,
            pipeline_wait |-> 0, samples_count |-> 0,
            sample |-> NULL, memory |-> NULL]

IdleCb == [pc |-> "idle", kind |-> "need_data", frame |-> 0]

\* No pipeline description was built.
NoDesc == [codec |-> "", gst_auto |-> << >>, src_caps |-> "", gstdec_name |-> ""]

NoCall == [startCount |-> 0, startFrame |-> 1, nIn |-> 0, nOut |-> 0,
           push |-> "none", pull |-> "none", samples |-> 0, reaction |-> {},
           cbSinceMark |-> FALSE, desc |-> NoDesc]

PipelineRes == {"pipeline", "appsrc", "appsink", "mutex", "cond"}

Init ==
    /\ pc = "idle"
    /\ op = "none"
    /\ life = "new"
    /\ st = [gst_dec |-> NULL, out_frame |-> NULL]
    /\ dec = ZeroDec
    /\ frameSize = 0
    /\ live = {}
    /\ callbacks = {}
    /\ heldSamples = {}
    /\ heldMaps = {}
    /\ inflight = {}
    /\ mutex = "free"
    /\ woken = FALSE
    /\ cb = IdleCb
    /\ pending = {}
    /\ sinkq = << >>
    /\ nextFrame = 1
    /\ call = NoCall
    /\ nullDeref = FALSE

----------------------------------------------------------------------------
(* The pipeline description *)

\* st->codec: the three codecs construct_pipeline knows, and any other.
Codecs == {"MJPEG", "VP8", "H264", "other"}

\* getenv("SPICE_GST_AUTO"): unset (the empty sequence), or set to a string.
AutoValues == {<< >>, <<"decodebin">>, <<"1">>, <<"">>}

\* The switch on st->codec: src_caps, or "" where the code leaves it NULL.
codec_caps(codec) ==
    CASE codec = "MJPEG" -> "caps=image/jpeg"
      [] codec = "VP8" -> "caps=video/x-vp8"
      [] codec = "H264" -> "caps=video/x-h264"
      [] OTHER -> ""

\* The switch on st->codec: gstdec_name, or "" where the code leaves it NULL.
codec_decoder(codec) ==
    CASE codec = "MJPEG" -> "jpegdec"
      [] codec = "VP8" -> "vp8dec"
      [] codec = "H264" -> "h264parse ! avdec_h264"
      [] OTHER -> ""

\* Faulty variant: the decoder is overridden under the same condition as
\* the caps.
pipeline_desc_same_test(codec, gst_auto) ==
    LET override == gst_auto # << >> /\ gst_auto # <<"decodebin">> IN
    [codec |-> codec, gst_auto |-> gst_auto,
     src_caps |-> IF codec_caps(codec) = "" \/ override
                  THEN "typefind=true" ELSE codec_caps(codec),
     gstdec_name |-> IF codec_decoder(codec) = "" \/ override
                     THEN "decodebin" ELSE codec_decoder(codec)]

\* construct_pipeline: the two fragments that go into the description,
\* from the codec and SPICE_GST_AUTO.
pipeline_desc(codec, gst_auto) ==
    [codec |-> codec, gst_auto |-> gst_auto,
     src_caps |-> IF codec_caps(codec) = ""
                     \/ (gst_auto # << >> /\ gst_auto # <<"decodebin">>)
                  THEN "typefind=true" ELSE codec_caps(codec),
     gstdec_name |-> IF codec_decoder(codec) = "" \/ gst_auto # << >>
                     THEN "decodebin" ELSE codec_decoder(codec)]

----------------------------------------------------------------------------
(* Pipeline construction and teardown *)

\* Faulty variant: the wait flag is not cleared.
signal_pipeline_keeps_wait(d, samples) ==
    [d EXCEPT !.samples_count = d.samples_count + samples]

\* signal_pipeline's body between lock and unlock.
signal_pipeline(d, samples) ==
    [d EXCEPT !.pipeline_wait = 0, !.samples_count = d.samples_count + samples]

\* Faulty variant: need_data also counts as a sample.
CbSamples_always_one(kind) == 1

\* The samples argument each callback passes to signal_pipeline.
CbSamples(kind) == IF kind = "new_sample" THEN 1 ELSE 0

\* Faulty variant: the two endpoints are not unreferenced.
reset_pipeline_keeps_endpoints(d) ==
    IF d.pipeline = NULL THEN {} ELSE PipelineRes \ {"appsrc", "appsink"}

\* reset_pipeline: the resources it releases.
reset_pipeline(d) ==
    IF d.pipeline = NULL THEN {} ELSE PipelineRes

\* reset_pipeline: the callbacks still registered on a live pipeline.
reset_callbacks(d, cbs) ==
    IF d.pipeline = NULL THEN cbs ELSE {}

\* construct_pipeline up to gst_parse_launch_full and its NULL check.
parse_launch(d, parsed) ==
    [d EXCEPT !.pipeline_wait = 1, !.samples_count = 0,
              !.pipeline = IF parsed THEN PTR ELSE NULL]

\* Faulty variant: the callbacks are registered before the parse result
\* is looked at.
register_callbacks_unchecked(d) == Kinds

\* construct_pipeline: the callbacks registered once the pipeline exists.
register_callbacks(d) ==
    IF d.pipeline = NULL THEN {} ELSE Kinds

\* construct_pipeline: the endpoints looked up once the pipeline exists.
get_endpoints(d) ==
    IF d.pipeline = NULL THEN d ELSE [d EXCEPT !.appsrc = PTR, !.appsink = PTR]

\* construct_pipeline: resources created, given whether the parse succeeded.
construct_created(d) ==
    {"mutex", "cond"} \cup
        (IF d.pipeline = NULL THEN {} ELSE {"pipeline", "appsrc", "appsink"})

CanInit == pc = "idle" /\ life \in {"new", "failed_parse", "failed_play", "torn_down"}

InitCommon ==
    /\ op' = "init"
    /\ pc' = "idle"
    /\ \E codec \in Codecs, gst_auto \in AutoValues :
         call' = [NoCall EXCEPT !.desc = pipeline_desc(codec, gst_auto)]
    /\ nullDeref' = FALSE
    /\ UNCHANGED <<frameSize, heldSamples, heldMaps, inflight, mutex, woken,
                   cb, sinkq>>

\* stream_gst_init when gst_parse_launch_full fails.
InitParseFail ==
    /\ CanInit
    /\ LET d == parse_launch(ZeroDec, FALSE) IN
       /\ live' = live \cup construct_created(d)
       /\ callbacks' = register_callbacks(d)
    /\ life' = "failed_parse"
    /\ st' = [st EXCEPT !.gst_dec = NULL]
    /\ dec' = ZeroDec
    /\ UNCHANGED <<pending, nextFrame>>
    /\ InitCommon

\* stream_gst_init when the pipeline cannot be set to PLAYING.
InitPlayFail ==
    /\ CanInit
    /\ LET d == get_endpoints(parse_launch(ZeroDec, TRUE)) IN
       /\ live' = (live \cup construct_created(d)) \ reset_pipeline(d)
       /\ callbacks' = reset_callbacks(d, register_callbacks(d))
    /\ life' = "failed_play"
    /\ st' = [st EXCEPT !.gst_dec = NULL]
    /\ dec' = ZeroDec
    /\ UNCHANGED <<pending, nextFrame>>
    /\ InitCommon

\* stream_gst_init when construct_pipeline succeeds.  The appsrc may ask for
\* data as soon as it runs, before any buffer was pushed.
InitOk ==
    /\ CanInit
    /\ LET d == get_endpoints(parse_launch(ZeroDec, TRUE)) IN
       /\ live' = live \cup {"decoder"} \cup construct_created(d)
       /\ callbacks' = register_callbacks(d)
       /\ dec' = d
    /\ life' = "running"
    /\ st' = [st EXCEPT !.gst_dec = PTR]
    /\ \E stray \in SUBSET {[kind |-> "need_data", frame |-> 0]} : pending' = stray
    /\ nextFrame' = 1
    /\ InitCommon

----------------------------------------------------------------------------
(* The pipeline's streaming threads *)

\* The pipeline delivers new_sample for its outputs in frame order.
Deliverable(n) ==
    /\ n \in pending
    /\ n.kind \in callbacks
    /\ n.kind = "new_sample" =>
           \A m \in pending : m.kind = "new_sample" => n.frame <= m.frame

\* A callback starts: signal_pipeline takes pipeline_mutex.  A decoded
\* sample is queued in the appsink before new_sample is called.
CbBegin ==
    /\ pc # "crashed"
    /\ cb.pc = "idle"
    /\ mutex = "free"
    /\ \E n \in pending :
         /\ Deliverable(n)
         /\ pending' = pending \ {n}
         /\ cb' = [pc |-> "locked", kind |-> n.kind, frame |-> n.frame]
         /\ sinkq' = IF n.kind = "new_sample" THEN Append(sinkq, n.frame) ELSE sinkq
    /\ mutex' = "cb"
    /\ UNCHANGED <<pc, op, life, st, dec, frameSize, live, callbacks,
                   heldSamples, heldMaps, inflight, woken, nextFrame, call,
                   nullDeref>>

\* Faulty variant: the condition is not signalled.
g_cond_signal_missing(w, p) == w

\* signal_pipeline's g_cond_signal: a caller blocked in g_cond_wait is
\* woken; with no waiter the signal has no effect.
g_cond_signal(w, p) == w \/ p = "d_waiting"

\* signal_pipeline: update, g_cond_signal, unlock.
CbSignal ==
    /\ pc # "crashed"
    /\ cb.pc = "locked"
    /\ dec' = signal_pipeline(dec, CbSamples(cb.kind))
    /\ woken' = g_cond_signal(woken, pc)
    /\ mutex' = "free"
    /\ cb' = IdleCb
    /\ call' = IF op = "decode"
               THEN IF cb.kind = "new_sample"
                    THEN [call EXCEPT !.nOut = call.nOut + 1,
                                      !.cbSinceMark = TRUE]
                    ELSE [call EXCEPT !.nIn = call.nIn + 1,
                                      !.cbSinceMark = TRUE]
               ELSE call
    /\ UNCHANGED <<pc, op, life, st, frameSize, live, callbacks, heldSamples,
                   heldMaps, inflight, pending, sinkq, nextFrame, nullDeref>>

\* release_msg_in: the pipeline is done with a buffer and drops the
\* message reference taken for it.
ReleaseMsg ==
    /\ pc # "crashed"
    /\ st.gst_dec # NULL
    /\ \E f \in inflight : inflight' = inflight \ {f}
    /\ UNCHANGED <<pc, op, life, st, dec, frameSize, live, callbacks,
                   heldSamples, heldMaps, mutex, woken, cb, pending, sinkq,
                   nextFrame, call, nullDeref>>

----------------------------------------------------------------------------
(* stream_gst_data *)

\* Faulty variant: the sample pointer is cleared without gst_sample_unref.
release_last_frame_keeps_sample(d, hs, hm) ==
    [dec |-> [d EXCEPT !.memory = NULL, !.sample = NULL],
     maps |-> IF d.memory # NULL THEN hm \ {d.memory} ELSE hm,
     samples |-> hs,
     out_frame |-> NULL]

\* release_last_frame: decoder, references and out_frame afterwards.
release_last_frame(d, hs, hm) ==
    [dec |-> [d EXCEPT !.memory = NULL, !.sample = NULL],
     maps |-> IF d.memory # NULL THEN hm \ {d.memory} ELSE hm,
     samples |-> IF d.sample # NULL THEN hs \ {d.sample} ELSE hs,
     out_frame |-> NULL]

\* Faulty variant: the size is not tested.
frame_is_empty_never(size) == FALSE

\* push_compressed_buffer: the test for an empty frame.
frame_is_empty(size) == size = 0

\* Faulty variant: the count is decremented whatever its value.
wait_consume_always_decrements(d) ==
    [dec |-> [d EXCEPT !.pipeline_wait = 1,
                       !.samples_count = d.samples_count - 1],
     samples |-> d.samples_count]

\* Faulty variant: the count is read but not decremented.
wait_consume_no_decrement(d) ==
    [dec |-> [d EXCEPT !.pipeline_wait = 1], samples |-> d.samples_count]

\* stream_gst_data after the wait: take the wait flag again, read the
\* count and consume one sample if there is one.  samples_count is a
\* uint32_t: a decrement at zero would wrap, which shows here as a
\* negative value.
wait_consume(d) ==
    [dec |-> [d EXCEPT !.pipeline_wait = 1,
                       !.samples_count = IF d.samples_count # 0
                                         THEN d.samples_count - 1
                                         ELSE d.samples_count],
     samples |-> d.samples_count]

\* Faulty variant: the result of gst_buffer_map is ignored.
pull_raw_frame_ignores_map(d, hs, hm, out, res, f) ==
    CASE res = "nosample" ->
           [dec |-> [d EXCEPT !.sample = NULL], samples |-> hs, maps |-> hm,
            out_frame |-> out]
      [] res = "nomap" ->
           [dec |-> [d EXCEPT !.sample = f], samples |-> hs \cup {f},
            maps |-> hm, out_frame |-> f]
      [] res = "mapped" ->
           [dec |-> [d EXCEPT !.sample = f, !.memory = f],
            samples |-> hs \cup {f}, maps |-> hm \cup {f}, out_frame |-> f]

\* pull_raw_frame, given what gst_app_sink_pull_sample and gst_buffer_map did
\* with sample f at the head of the appsink's queue.
pull_raw_frame(d, hs, hm, out, res, f) ==
    CASE res = "nosample" ->
           [dec |-> [d EXCEPT !.sample = NULL], samples |-> hs, maps |-> hm,
            out_frame |-> out]
      [] res = "nomap" ->
           [dec |-> [d EXCEPT !.sample = f], samples |-> hs \cup {f},
            maps |-> hm, out_frame |-> out]
      [] res = "mapped" ->
           [dec |-> [d EXCEPT !.sample = f, !.memory = f],
            samples |-> hs \cup {f}, maps |-> hm \cup {f}, out_frame |-> f]

\* Faulty variant: the flag is left as the callbacks set it.
mark_waiting_skipped(d) == d

\* stream_gst_data before the push: pipeline_wait = 1.
mark_waiting(d) == [d EXCEPT !.pipeline_wait = 1]

\* Faulty variant: the mutex stays locked.
g_mutex_unlock_missing(m) == m

\* stream_gst_data's g_mutex_unlock(&decoder->pipeline_mutex).
g_mutex_unlock(m) == "free"

\* Faulty variant: the result of push_compressed_buffer is ignored.
after_push_always_waits(pushed) == "d_lock2"

\* if (push_compressed_buffer(st)): where stream_gst_data goes next.
after_push(pushed) == IF pushed THEN "d_lock2" ELSE "idle"

\* Faulty variant: the caller drops the reference when the push is refused.
push_message_refs_unref_on_refusal(refs, f, accepted) ==
    IF accepted THEN refs \cup {f} ELSE refs

\* push_compressed_buffer for a non-empty frame: spice_msg_in_ref, and no
\* unref of its own whatever gst_app_src_push_buffer returns.
push_message_refs(refs, f, accepted) == refs \cup {f}

\* Faulty variant: the loop does not look at the flag.
must_wait_never(d) == FALSE

\* while (decoder->pipeline_wait): the loop's test.
must_wait(d) == d.pipeline_wait # 0

\* The outer subsystem calls stream_gst_data for the stream's current frame.
\* Non-empty frames are numbered, up to MaxFrames of them.
CallDecode ==
    /\ pc = "idle"
    /\ life \in {"running", "failed_parse", "failed_play"}
    /\ \E size \in FrameSizes :
         /\ size # 0 => nextFrame <= MaxFrames
         /\ frameSize' = size
    /\ op' = "decode"
    /\ pc' = "d_release"
    /\ call' = [NoCall EXCEPT !.startCount = dec.samples_count,
                              !.startFrame = nextFrame]
    /\ nullDeref' = FALSE
    /\ UNCHANGED <<life, st, dec, live, callbacks, heldSamples, heldMaps,
                   inflight, mutex, woken, cb, pending, sinkq, nextFrame>>

\* release_last_frame(st) at the start of stream_gst_data.
DRelease ==
    /\ pc = "d_release"
    /\ st.gst_dec # NULL
    /\ LET r == release_last_frame(dec, heldSamples, heldMaps) IN
       /\ dec' = r.dec
       /\ heldSamples' = r.samples
       /\ heldMaps' = r.maps
       /\ st' = [st EXCEPT !.out_frame = r.out_frame]
    /\ pc' = "d_lock1"
    /\ UNCHANGED <<op, life, frameSize, live, callbacks, inflight, mutex,
                   woken, cb, pending, sinkq, nextFrame, call, nullDeref>>

\* g_mutex_lock before resetting pipeline_wait.
DLock1 ==
    /\ pc = "d_lock1"
    /\ st.gst_dec # NULL
    /\ mutex = "free"
    /\ mutex' = "caller"
    /\ pc' = "d_set1"
    /\ UNCHANGED <<op, life, st, dec, frameSize, live, callbacks, heldSamples,
                   heldMaps, inflight, woken, cb, pending, sinkq, nextFrame,
                   call, nullDeref>>

\* pipeline_wait = 1; g_mutex_unlock.
DSet1 ==
    /\ pc = "d_set1"
    /\ st.gst_dec # NULL
    /\ dec' = mark_waiting(dec)
    /\ mutex' = g_mutex_unlock(mutex)
    /\ pc' = "d_push"
    /\ call' = [call EXCEPT !.cbSinceMark = FALSE]
    /\ UNCHANGED <<op, life, st, frameSize, live, callbacks, heldSamples,
                   heldMaps, inflight, woken, cb, pending, sinkq, nextFrame,
                   nullDeref>>

\* push_compressed_buffer: an empty frame is refused at once; otherwise the
\* message is referenced, the buffer wrapped and pushed, and the appsrc
\* accepts or refuses it.  The pipeline reacts to an accepted buffer with
\* some of its callbacks.
DPush ==
    /\ pc = "d_push"
    /\ frame_is_empty(frameSize) \/ st.gst_dec # NULL
    /\ IF frame_is_empty(frameSize)
       THEN /\ call' = [call EXCEPT !.push = "empty"]
            /\ pc' = after_push(FALSE)
            /\ UNCHANGED <<inflight, pending, nextFrame>>
       ELSE /\ nextFrame' = nextFrame + 1
            /\ \/ \E r \in Reactions :
                    /\ inflight' = push_message_refs(inflight, nextFrame, TRUE)
                    /\ pending' = pending \cup
                           {[kind |-> k, frame |-> nextFrame] : k \in r}
                    /\ call' = [call EXCEPT !.push = "ok", !.reaction = r]
                    /\ pc' = after_push(TRUE)
               \/ /\ inflight' = push_message_refs(inflight, nextFrame, FALSE)
                  /\ pending' = pending
                  /\ call' = [call EXCEPT !.push = "refused"]
                  /\ pc' = after_push(FALSE)
    /\ UNCHANGED <<op, life, st, dec, frameSize, live, callbacks, heldSamples,
                   heldMaps, mutex, woken, cb, sinkq, nullDeref>>

\* g_mutex_lock before the wait.
DLock2 ==
    /\ pc = "d_lock2"
    /\ st.gst_dec # NULL
    /\ mutex = "free"
    /\ mutex' = "caller"
    /\ pc' = "d_loop"
    /\ UNCHANGED <<op, life, st, dec, frameSize, live, callbacks, heldSamples,
                   heldMaps, inflight, woken, cb, pending, sinkq, nextFrame,
                   call, nullDeref>>

\* while (decoder->pipeline_wait) g_cond_wait(...): the test, and the
\* entry into g_cond_wait, which releases the mutex.
DLoop ==
    /\ pc = "d_loop"
    /\ st.gst_dec # NULL
    /\ IF must_wait(dec)
       THEN /\ mutex' = "free"
            /\ woken' = FALSE
            /\ pc' = "d_waiting"
       ELSE /\ pc' = "d_consume"
            /\ UNCHANGED <<mutex, woken>>
    /\ UNCHANGED <<op, life, st, dec, frameSize, live, callbacks, heldSamples,
                   heldMaps, inflight, cb, pending, sinkq, nextFrame, call,
                   nullDeref>>

\* g_cond_wait returns after g_cond_signal, with the mutex taken again.
DWake ==
    /\ pc = "d_waiting"
    /\ woken
    /\ mutex = "free"
    /\ mutex' = "caller"
    /\ woken' = FALSE
    /\ pc' = "d_loop"
    /\ UNCHANGED <<op, life, st, dec, frameSize, live, callbacks, heldSamples,
                   heldMaps, inflight, cb, pending, sinkq, nextFrame, call,
                   nullDeref>>

\* g_cond_wait may also return without a signal.
DSpurious ==
    /\ pc = "d_waiting"
    /\ ~woken
    /\ mutex = "free"
    /\ mutex' = "caller"
    /\ pc' = "d_loop"
    /\ UNCHANGED <<op, life, st, dec, frameSize, live, callbacks, heldSamples,
                   heldMaps, inflight, woken, cb, pending, sinkq, nextFrame,
                   call, nullDeref>>

\* After the loop: pipeline_wait = 1, read and consume the count, unlock.
DConsume ==
    /\ pc = "d_consume"
    /\ st.gst_dec # NULL
    /\ LET r == wait_consume(dec) IN
       /\ dec' = r.dec
       /\ call' = [call EXCEPT !.samples = r.samples]
       /\ pc' = IF r.samples # 0 THEN "d_pull" ELSE "idle"
    /\ mutex' = g_mutex_unlock(mutex)
    /\ UNCHANGED <<op, life, st, frameSize, live, callbacks, heldSamples,
                   heldMaps, inflight, woken, cb, pending, sinkq, nextFrame,
                   nullDeref>>

\* pull_raw_frame(st): the pull yields the oldest queued sample or nothing,
\* and mapping a pulled sample succeeds or fails.
DPull ==
    /\ pc = "d_pull"
    /\ st.gst_dec # NULL
    /\ \E res \in {"nosample", "nomap", "mapped"} :
         /\ res # "nosample" => sinkq # << >>
         /\ LET f == IF sinkq # << >> THEN Head(sinkq) ELSE NULL
                r == pull_raw_frame(dec, heldSamples, heldMaps, st.out_frame, res, f)
            IN /\ dec' = r.dec
               /\ heldSamples' = r.samples
               /\ heldMaps' = r.maps
               /\ st' = [st EXCEPT !.out_frame = r.out_frame]
         /\ sinkq' = IF res = "nosample" THEN sinkq ELSE Tail(sinkq)
         /\ call' = [call EXCEPT !.pull = res]
    /\ pc' = "idle"
    /\ UNCHANGED <<op, life, frameSize, live, callbacks, inflight, mutex,
                   woken, cb, pending, nextFrame, nullDeref>>

----------------------------------------------------------------------------
(* stream_gst_cleanup *)

CallCleanup ==
    /\ pc = "idle"
    /\ life \in {"running", "failed_parse", "failed_play", "torn_down"}
    /\ op' = "cleanup"
    /\ pc' = "c_release"
    /\ call' = NoCall
    /\ nullDeref' = FALSE
    /\ UNCHANGED <<life, st, dec, frameSize, live, callbacks, heldSamples,
                   heldMaps, inflight, mutex, woken, cb, pending, sinkq,
                   nextFrame>>

\* release_last_frame(st) at the start of stream_gst_cleanup.
CRelease ==
    /\ pc = "c_release"
    /\ st.gst_dec # NULL
    /\ LET r == release_last_frame(dec, heldSamples, heldMaps) IN
       /\ dec' = r.dec
       /\ heldSamples' = r.samples
       /\ heldMaps' = r.maps
       /\ st' = [st EXCEPT !.out_frame = r.out_frame]
    /\ pc' = "c_destroy"
    /\ UNCHANGED <<op, life, frameSize, live, callbacks, inflight, mutex,
                   woken, cb, pending, sinkq, nextFrame, call, nullDeref>>

\* if (st->gst_dec) { gst_decoder_destroy(st->gst_dec); st->gst_dec = NULL; }
\* Setting the pipeline to GST_STATE_NULL waits for its streaming threads,
\* and destroying it drops the buffers and samples it still holds.
CDestroy ==
    /\ pc = "c_destroy"
    /\ IF st.gst_dec # NULL
       THEN /\ cb.pc = "idle"
            /\ live' = (live \ reset_pipeline(dec)) \ {"decoder"}
            /\ callbacks' = reset_callbacks(dec, callbacks)
            /\ dec' = ZeroDec
            /\ st' = [st EXCEPT !.gst_dec = NULL]
            /\ pending' = {}
            /\ sinkq' = << >>
            /\ inflight' = {}
            /\ woken' = FALSE
       ELSE UNCHANGED <<live, callbacks, dec, st, pending, sinkq, inflight, woken>>
    /\ life' = "torn_down"
    /\ pc' = "idle"
    /\ UNCHANGED <<op, frameSize, heldSamples, heldMaps, mutex, cb, nextFrame,
                   call, nullDeref>>

----------------------------------------------------------------------------
(* A NULL decoder *)

\* The statements of stream_gst_data and stream_gst_cleanup that read or
\* write through st->gst_dec.
DerefPcs == {"d_release", "d_lock1", "d_set1", "d_push", "d_lock2", "d_loop",
             "d_consume", "d_pull", "c_release"}

\* Where control can go when such a statement survives a NULL decoder.
NullSucc(p) ==
    CASE p = "d_release" -> {"d_lock1"}
      [] p = "d_lock1" -> {"d_set1"}
      [] p = "d_set1" -> {"d_push"}
      [] p = "d_push" -> {"d_lock2", "idle"}
      [] p = "d_lock2" -> {"d_loop"}
      [] p = "d_loop" -> {"d_consume"}
      [] p = "d_consume" -> {"d_pull", "idle"}
      [] p = "d_pull" -> {"idle"}
      [] p = "c_release" -> {"c_destroy"}

\* st->gst_dec is NULL and the statement dereferences it: undefined
\* behaviour.  The process faults, or the access goes through with whatever
\* it reads and control continues; only what the statement does to the
\* stream itself is kept.  push_compressed_buffer has referenced the message
\* before it reads st->gst_dec->appsrc, and no pipeline exists to release
\* that reference.
NullDeref ==
    /\ pc \in DerefPcs
    /\ st.gst_dec = NULL
    /\ pc = "d_push" => ~frame_is_empty(frameSize)
    /\ nullDeref' = TRUE
    /\ \/ pc' = "crashed"
       \/ pc' \in NullSucc(pc)
    /\ st' = IF pc \in {"d_release", "c_release"} /\ pc' # "crashed"
             THEN [st EXCEPT !.out_frame = NULL] ELSE st
    /\ live' = IF pc = "d_push" THEN live \cup {"msg"} ELSE live
    /\ UNCHANGED <<op, life, dec, frameSize, callbacks, heldSamples,
                   heldMaps, inflight, mutex, woken, cb, pending, sinkq,
                   nextFrame, call>>

----------------------------------------------------------------------------

Next ==
    \/ InitParseFail
    \/ InitPlayFail
    \/ InitOk
    \/ CbBegin
    \/ CbSignal
    \/ ReleaseMsg
    \/ CallDecode
    \/ DRelease
    \/ DLock1
    \/ DSet1
    \/ DPush
    \/ DLock2
    \/ DLoop
    \/ DWake
    \/ DSpurious
    \/ DConsume
    \/ DPull
    \/ CallCleanup
    \/ CRelease
    \/ CDestroy
    \/ NullDeref

Spec == Init /\ [][Next]_vars

\* The caller's steps from the push to the return of stream_gst_data.
WaitStep == DLock2 \/ DLoop \/ DWake \/ DConsume \/ DPull

\* Scheduling: a runnable thread is eventually run, and a streaming thread
\* blocked in g_mutex_lock gets the mutex although the caller takes and
\* releases it again and again.
LiveSpec ==
    /\ Spec
    /\ WF_vars(WaitStep)
    /\ WF_vars(CbSignal)
    /\ SF_vars(CbBegin)

WaitPcs == {"d_lock2", "d_loop", "d_waiting", "d_consume"}

Failed == {"failed_parse", "failed_play"}

Returned == pc = "idle" /\ op = "decode"

\* C1: after a failed stream_gst_init, stream_gst_data is a no-op: it does
\* not touch decoder state, injects nothing, does not wait, and leaves
\* out_frame NULL.
C1_DecodeAfterFailedInitIsNoOp ==
    (op = "decode" /\ life \in Failed) =>
        /\ ~nullDeref
        /\ pc \notin {"crashed", "d_pull"} \cup WaitPcs
        /\ nextFrame = call.startFrame
        /\ st.out_frame = NULL

\* C2: stream_gst_cleanup on a stream without a decoder (a failed init, or
\* a second cleanup) touches no decoder state.
C2_TeardownIdempotent ==
    op = "cleanup" => (~nullDeref /\ pc # "crashed")

\* C3: when the pipeline answers a pushed buffer with need_data and
\* new_sample, in whatever order and at whatever moment relative to the
\* caller's wait, the caller leaves the wait, and samples_count never wraps
\* below zero.
C3_WaitEndsCountNonNegative ==
    /\ [](dec.samples_count >= 0)
    /\ ((pc \in WaitPcs /\ call.reaction = Kinds) ~> (pc \notin WaitPcs))

\* The caller waits, need_data has fired and new_sample is still to come.
C3_Witness ==
    /\ pc = "d_waiting"
    /\ call.reaction = Kinds
    /\ call.nIn = 1
    /\ call.nOut = 0
    /\ woken

\* C4: at most one sample reference and one mapping are held, each the one
\* the decoder points to, and none is held when pull_raw_frame pulls.
C4_AtMostOneLease ==
    /\ Cardinality(heldSamples) <= 1
    /\ Cardinality(heldMaps) <= 1
    /\ heldSamples \subseteq {dec.sample}
    /\ heldMaps \subseteq {dec.memory}
    /\ pc = "d_pull" =>
           /\ heldSamples = {}
           /\ heldMaps = {}
           /\ dec.sample = NULL
           /\ dec.memory = NULL

\* A second frame is leased after the first one was.
C4_Witness ==
    /\ Returned
    /\ st.out_frame = 2
    /\ heldSamples = {2}
    /\ heldMaps = {2}

\* C5: stream_gst_data with an empty frame takes no message reference,
\* pushes nothing, never enters the wait and returns with out_frame NULL.
C5_EmptyFrameNoInjectionNoWait ==
    (op = "decode" /\ frameSize = 0) =>
        /\ pc \notin WaitPcs \cup {"d_pull"}
        /\ nextFrame = call.startFrame
        /\ \A f \in inflight : f < call.startFrame
        /\ \A n \in pending : n.frame < call.startFrame
        /\ pc = "idle" => (st.out_frame = NULL /\ call.push = "empty")

C5_Witness ==
    /\ Returned
    /\ life = "running"
    /\ frameSize = 0
    /\ call.push = "empty"

\* C6 as claimed: whenever stream_gst_data returns with out_frame NULL, no
\* sample reference and no mapping is held, and out_frame is non-NULL
\* exactly when sample and mapping are held.
C6_NoOutputLeavesLeaseEmpty ==
    /\ (Returned /\ st.out_frame = NULL) =>
           /\ dec.sample = NULL
           /\ dec.memory = NULL
           /\ heldSamples = {}
           /\ heldMaps = {}
    /\ pc = "idle" =>
           (st.out_frame # NULL <=> (dec.sample # NULL /\ dec.memory # NULL))

\* C6 as amended: whenever stream_gst_data returns with out_frame NULL, no
\* mapping is held, and a sample reference is held only after a mapping
\* failure (it is released by the next stream_gst_data or
\* stream_gst_cleanup); out_frame is non-NULL exactly when sample and
\* mapping are held.
C6_NoOutputLeavesNoMapping ==
    /\ (Returned /\ st.out_frame = NULL) =>
           /\ dec.memory = NULL
           /\ heldMaps = {}
           /\ (dec.sample # NULL \/ heldSamples # {}) => call.pull = "nomap"
    /\ pc = "idle" =>
           (st.out_frame # NULL <=> (dec.sample # NULL /\ dec.memory # NULL))

\* A mapping failure: the sample was pulled and stays referenced.
C6_Witness ==
    /\ Returned
    /\ call.pull = "nomap"
    /\ dec.sample # NULL
    /\ st.out_frame = NULL

\* The case of C7: the count was zero at the call, the buffer was
\* accepted, and since then new_sample fired once and need_data never.
C7_Case ==
    /\ Returned
    /\ call.push = "ok"
    /\ call.startCount = 0
    /\ call.nIn = 0
    /\ call.nOut = 1

\* C7: in that case, pull and map succeeding, stream_gst_data returns a
\* frame and samples_count is zero again.
C7_OneOutputGivesFrameAndZeroCount ==
    (C7_Case /\ call.pull \notin {"nosample", "nomap"}) =>
        /\ call.pull = "mapped"
        /\ st.out_frame # NULL
        /\ dec.samples_count = 0

C7_Witness ==
    /\ C7_Case
    /\ call.pull = "mapped"

\* The case of C8: the count was zero at the call, the buffer was
\* accepted, and since then no new_sample fired.
C8_Case ==
    /\ Returned
    /\ call.push = "ok"
    /\ call.startCount = 0
    /\ call.nOut = 0

\* C8: in that case stream_gst_data was woken by need_data, pulled
\* nothing, holds no lease, returns no frame and leaves the count at zero.
C8_InputReadyOnlyGivesNoOutput ==
    C8_Case =>
        /\ call.nIn >= 1
        /\ call.pull = "none"
        /\ st.out_frame = NULL
        /\ dec.sample = NULL
        /\ heldSamples = {}
        /\ heldMaps = {}
        /\ dec.samples_count = 0

C8_Witness ==
    /\ C8_Case
    /\ call.nIn = 1

\* C9: a stream_gst_init that fails, on either failure path, leaves
\* nothing that construct_pipeline created: no resource is live afterwards
\* that was not live before.
C9_FailedConstructionLeavesNothing ==
    [][(op' = "init" /\ life' \in Failed) => live' \subseteq live]_vars

\* C10: when gst_parse_launch_full fails, the stream has no decoder, no
\* callback is registered, and none runs or is due.
C10_NoCallbacksAfterInvalidTopology ==
    life = "failed_parse" =>
        /\ st.gst_dec = NULL
        /\ callbacks = {}
        /\ cb.pc = "idle"
        /\ pending = {}

C10_Witness ==
    /\ life = "failed_parse"
    /\ op = "init"
    /\ pc = "idle"

Recognized == {"MJPEG", "VP8", "H264"}

\* C11 as claimed: a recognized codec gets its own caps and decoder unless
\* an override is active, and the two overrides are independent: for each
\* choice of (type-detection forced or not, generic decoder forced or not)
\* some setting of the environment yields exactly that topology.
C11_OverridesIndependent ==
    (op = "init" /\ call.desc.codec \in Recognized) =>
        \A forceTypefind \in BOOLEAN, forceDecodebin \in BOOLEAN :
            \E a \in AutoValues :
                LET d == pipeline_desc(call.desc.codec, a) IN
                /\ d.src_caps = IF forceTypefind THEN "typefind=true"
                                ELSE codec_caps(call.desc.codec)
                /\ d.gstdec_name = IF forceDecodebin THEN "decodebin"
                                   ELSE codec_decoder(call.desc.codec)

\* C11 as amended: one variable, SPICE_GST_AUTO, drives both overrides.
\* For a recognized codec: unset gives the codec's caps and decoder;
\* "decodebin" gives the codec's caps with decodebin; any other value gives
\* typefind with decodebin.  An unrecognized codec always gets typefind with
\* decodebin.  Typefind never goes with a codec-specific decoder.
C11_OneVariableDrivesBoth ==
    op = "init" =>
        LET d == call.desc
            known == d.codec \in Recognized
            caps == CASE d.codec = "MJPEG" -> "caps=image/jpeg"
                      [] d.codec = "VP8" -> "caps=video/x-vp8"
                      [] d.codec = "H264" -> "caps=video/x-h264"
                      [] OTHER -> "typefind=true"
            decoder == CASE d.codec = "MJPEG" -> "jpegdec"
                         [] d.codec = "VP8" -> "vp8dec"
                         [] d.codec = "H264" -> "h264parse ! avdec_h264"
                         [] OTHER -> "decodebin"
        IN /\ (known /\ d.gst_auto = << >>) =>
                  (d.src_caps = caps /\ d.gstdec_name = decoder)
           /\ (known /\ d.gst_auto = <<"decodebin">>) =>
                  (d.src_caps = caps /\ d.gstdec_name = "decodebin")
           /\ (known /\ d.gst_auto \notin {<< >>, <<"decodebin">>}) =>
                  (d.src_caps = "typefind=true" /\ d.gstdec_name = "decodebin")
           /\ ~known =>
                  (d.src_caps = "typefind=true" /\ d.gstdec_name = "decodebin")
           /\ d.src_caps = "typefind=true" => d.gstdec_name = "decodebin"

\* SPICE_GST_AUTO=decodebin with a recognized codec: the decoder is
\* overridden, the caps are not.
C11_Witness ==
    /\ op = "init"
    /\ call.desc.codec = "VP8"
    /\ call.desc.gst_auto = <<"decodebin">>
    /\ call.desc.src_caps = "caps=video/x-vp8"
    /\ call.desc.gstdec_name = "decodebin"

\* C12 as claimed: at the instant the buffer is pushed the awaiting-completion
\* flag is set, in every interleaving.
C12_FlagSetAtPush ==
    (pc = "d_push" /\ st.gst_dec # NULL /\ ~frame_is_empty(frameSize)) =>
        dec.pipeline_wait = 1

\* C12 as amended: from the caller's marking until it takes the flag again
\* after the wait, the flag is clear exactly when a callback has fired since
\* the marking; so it is set at the push unless a callback fired between the
\* marking and the push.
C12_FlagSetUnlessCallbackSinceMark ==
    (pc \in {"d_push", "d_lock2", "d_loop", "d_waiting", "d_consume"}
     /\ st.gst_dec # NULL) =>
        (dec.pipeline_wait = 0 <=> call.cbSinceMark)

\* A callback fired between the marking and the push of a non-empty frame.
C12_Witness ==
    /\ pc = "d_push"
    /\ st.gst_dec # NULL
    /\ ~frame_is_empty(frameSize)
    /\ call.cbSinceMark
    /\ dec.pipeline_wait = 0

\* C13: with at most one output per injected frame, when a decode call
\* returns, a frame it returns is the output of the buffer injected by that
\* call or by the injecting call before it, and at most one produced output
\* is left unconsumed.
C13_AtMostOneFrameBehind ==
    [][(op = "decode" /\ st.gst_dec # NULL /\ pc # "idle" /\ pc' = "idle") =>
           /\ st'.out_frame # NULL => st'.out_frame >= call.startFrame - 1
           /\ dec'.samples_count <= 1]_vars

\* C14: a decode call whose injection succeeded gets past its wait, and
\* returns, only after a callback has fired later than the call's own
\* marking; a notification from before the marking does not end the wait,
\* and nothing else (no timeout, no wakeup without a signal) does.
C14_ReturnsOnlyAfterCallbackSinceMark ==
    (op = "decode" /\ st.gst_dec # NULL /\ call.push = "ok"
     /\ pc \in {"d_consume", "d_pull", "idle"}) =>
        call.cbSinceMark

\* A notification fired during this call before its marking, none since,
\* and the caller is blocked in the wait.
C14_Witness ==
    /\ op = "decode"
    /\ pc = "d_waiting"
    /\ call.push = "ok"
    /\ call.nIn + call.nOut > 0
    /\ ~call.cbSinceMark
    /\ pending = {}

\* C15: no wakeup is lost.  A decode call that has injected a buffer to
\* which the pipeline reacts with at least one callback eventually returns,
\* wherever the callback falls between the push and the wait.
C15_NoLostWakeup ==
    (op = "decode" /\ pc \in WaitPcs /\ call.reaction # {}) ~> (pc = "idle")

\* Every callback for this call's buffer has already fired when the caller
\* is about to lock the mutex for its wait.
C15_Witness ==
    /\ op = "decode"
    /\ pc = "d_lock2"
    /\ call.reaction # {}
    /\ cb.pc = "idle"
    /\ pending = {}
    /\ dec.pipeline_wait = 0

\* C16: the available-outputs count starts at zero at construction and each
\* step changes it in one of these ways only: a new_sample callback adds
\* one; a decode call leaving its wait subtracts one if the count is above
\* zero and nothing otherwise, once per call; teardown of the decoder
\* clears it.  A
\* need_data callback, and a pull or a mapping that fails, leave it alone.
C16_CountAccounting ==
    [][/\ (op' = "init" /\ life' = "running" /\ life # "running") =>
              dec'.samples_count = 0
       /\ (cb.pc = "locked" /\ cb'.pc = "idle") =>
              dec'.samples_count =
                  dec.samples_count + (IF cb.kind = "new_sample" THEN 1 ELSE 0)
       /\ (st.gst_dec # NULL /\ pc = "d_consume" /\ pc' # "d_consume") =>
              /\ dec'.samples_count =
                     dec.samples_count - (IF dec.samples_count > 0 THEN 1 ELSE 0)
              /\ call.samples = 0
              /\ pc' \in {"d_pull", "idle"}
       /\ (pc = "d_pull" /\ pc' = "idle") =>
              dec'.samples_count = dec.samples_count
       /\ dec'.samples_count # dec.samples_count =>
              \/ op' = "init" /\ pc = "idle"
              \/ cb.pc = "locked" /\ cb.kind = "new_sample"
              \/ pc = "d_consume"
              \/ pc = "c_destroy"]_vars

\* A call consumed the one available output, its pull then failed, and the
\* count stayed at zero.
C16_Witness ==
    /\ Returned
    /\ call.startCount = 1
    /\ call.samples = 1
    /\ call.pull = "nosample"
    /\ call.nOut = 0
    /\ dec.samples_count = 0

\* C17: the caller holds pipeline_mutex only for the short sections that
\* write or test the flag and the count: never while it releases a lease,
\* injects, pulls, maps or tears down, and never across a return.  The
\* mutex always has the owner the two threads' positions say, so neither
\* thread waits for a lock the other cannot give up.
C17_MutexOnlyAroundFlagAndCount ==
    /\ mutex = "caller" <=>
           (st.gst_dec # NULL /\ pc \in {"d_set1", "d_loop", "d_consume"})
    /\ mutex = "cb" <=> cb.pc = "locked"
    /\ pc \in {"idle", "d_release", "d_push", "d_pull", "c_release",
               "c_destroy"} => mutex # "caller"

\* A callback holds the mutex and runs while the caller is injecting.
C17_Witness ==
    /\ pc = "d_push"
    /\ st.gst_dec # NULL
    /\ ~frame_is_empty(frameSize)
    /\ cb.pc = "locked"
    /\ mutex = "cb"

\* C18: when the pipeline refuses the pushed buffer the decode call returns
\* at once with NoOutput: it does not wait, does not read or decrement the
\* count, does not pull, and leaves the decoder running with its pipeline,
\* mutex and callbacks in place and no lease held, as a first call finds it.
C18_RefusedPushReturnsAtOnce ==
    (op = "decode" /\ call.push = "refused") =>
        /\ pc = "idle"
        /\ st.out_frame = NULL
        /\ call.samples = 0
        /\ call.pull = "none"
        /\ dec.samples_count = call.startCount + call.nOut
        /\ life = "running"
        /\ st.gst_dec # NULL
        /\ dec.pipeline # NULL /\ dec.appsrc # NULL /\ dec.appsink # NULL
        /\ dec.sample = NULL /\ dec.memory = NULL
        /\ PipelineRes \subseteq live
        /\ callbacks = Kinds
        /\ mutex # "caller"

\* A refused push while an output was available: the count is still there.
C18_Witness ==
    /\ Returned
    /\ call.push = "refused"
    /\ call.startCount = 1
    /\ dec.samples_count = 1

\* C19: stream_gst_data takes one reference on the message for each
\* non-empty frame, at the push and whether or not the push is accepted,
\* and never drops one itself: a reference goes away only in a step of the
\* pipeline (its release callback, or the destruction of the pipeline that
\* holds the buffers), one at a time for a reference that is held, so it
\* is still held when the call returns unless the callback has fired.
C19_MessageReleasedOnlyByPipeline ==
    [][/\ (pc = "d_push" /\ pc' # "d_push" /\ ~frame_is_empty(frameSize)) =>
              \/ inflight' = inflight \cup {nextFrame} /\ nextFrame \notin inflight
              \/ st.gst_dec = NULL /\ "msg" \in live'
       /\ inflight' # inflight =>
              \/ pc = "d_push" /\ inflight' = inflight \cup {nextFrame}
              \/ pc' = pc /\ \E f \in inflight : inflight' = inflight \ {f}
              \/ pc = "c_destroy" /\ st.gst_dec # NULL /\ inflight' = {}
       /\ (op = "decode" /\ pc # "idle" /\ pc' = "idle" /\ call'.push = "refused") =>
              (nextFrame \in inflight')]_vars

\* The push was refused, the call has returned, and the reference taken
\* for the refused buffer is still held.
C19_Witness ==
    /\ Returned
    /\ call.push = "refused"
    /\ call.startFrame \in inflight

\* C20: stream_gst_cleanup on a running handle releases the held lease
\* first, with the pipeline still standing, and only then stops and releases
\* the pipeline, its endpoints, the mutex and the condition.  When it has
\* returned no sample or mapping is held, out_frame is null, the stream
\* records no decoder, and nothing of the pipeline is left to be used: no
\* endpoint, no registered callback, no notification underway.
C20_CleanupReleasesLeaseThenPipeline ==
    /\ (op = "cleanup" /\ pc = "c_destroy" /\ st.gst_dec # NULL) =>
           /\ heldSamples = {} /\ heldMaps = {}
           /\ st.out_frame = NULL
           /\ dec.sample = NULL /\ dec.memory = NULL
           /\ dec.pipeline # NULL /\ dec.appsrc # NULL /\ dec.appsink # NULL
           /\ PipelineRes \cup {"decoder"} \subseteq live
    /\ (op = "cleanup" /\ pc = "idle" /\ ~nullDeref) =>
           /\ heldSamples = {} /\ heldMaps = {}
           /\ st.out_frame = NULL
           /\ st.gst_dec = NULL
           /\ dec = ZeroDec
           /\ live \cap (PipelineRes \cup {"decoder"}) = {}
           /\ callbacks = {}
           /\ pending = {} /\ cb.pc = "idle" /\ sinkq = << >>
           /\ mutex = "free"
           /\ life = "torn_down"
    /\ st.gst_dec = NULL =>
           (dec.appsrc = NULL /\ dec.appsink = NULL /\ cb.pc = "idle")

\* Cleanup of a running handle is at the point where the lease it held has
\* been released and the pipeline, with outputs still queued, is about to be
\* destroyed.
C20_Witness ==
    /\ op = "cleanup"
    /\ pc = "c_destroy"
    /\ st.gst_dec # NULL
    /\ heldSamples = {}
    /\ sinkq # << >>
    /\ nextFrame > MaxFrames

====
